---------------------------- MODULE Spec2Model ----------------------------
(***************************************************************************)
(* Model of the report analytics engine of ivanoskov/financial_bot         *)
(* (internal/service/expense_tracker.go) together with the part of the     *)
(* storage adapter (internal/repository/supabase.go) and of the dialog     *)
(* (internal/bot/bot.go) that feeds it.                                    *)
(*                                                                         *)
(* Numbers.  Go's float64 values are modelled exactly: a value is a        *)
(* record [n, d] standing for the rational n/d in lowest terms (d > 0),    *)
(* and the three non-finite IEEE values are +Inf = [1,0], -Inf = [-1,0]    *)
(* and NaN = [0,0].  Rounding and the sign of zero are not modelled.       *)
(* Transaction amounts are whole numbers, so sums of amounts are kept as   *)
(* integers and become rationals where the code divides.                   *)
(*                                                                         *)
(* Time.  An instant is an integer count of ticks since 00:00 of           *)
(* 1 January of the first year of Years; one tick is the resolution of     *)
(* time.Time (one nanosecond in Go), TicksPerSec ticks make a second and   *)
(* SecPerDay seconds make a day.  The location is a fixed-offset zone.     *)
(***************************************************************************)
EXTENDS Integers, Sequences, FiniteSets, TLC

-----------------------------------------------------------------------------
(* float64 arithmetic                                                      *)

Abs(i) == IF i < 0 THEN -i ELSE i

RECURSIVE GCD(_, _)
GCD(a, b) == IF b = 0 THEN a ELSE GCD(b, a % b)

\* the float64 with value n/d (d # 0), in lowest terms with d > 0
Norm(n, d) ==
    LET g == GCD(Abs(n), Abs(d))
        s == IF d < 0 THEN -1 ELSE 1
    IN  [n |-> s * (n \div g), d |-> s * (d \div g)]

Num(i) == [n |-> i, d |-> 1]
PosInf == [n |-> 1, d |-> 0]
NegInf == [n |-> -1, d |-> 0]
NaN == [n |-> 0, d |-> 0]

IsNaN(a) == a.d = 0 /\ a.n = 0
IsInf(a) == a.d = 0 /\ a.n # 0
IsFinite(a) == a.d # 0
Sign(a) == IF a.n > 0 THEN 1 ELSE IF a.n < 0 THEN -1 ELSE 0

\* a < b; every comparison with NaN is false
FLt(a, b) ==
    IF IsNaN(a) \/ IsNaN(b) THEN FALSE
    ELSE IF a.d = 0 THEN a.n < 0 /\ b # a
    ELSE IF b.d = 0 THEN b.n > 0
    ELSE a.n * b.d < b.n * a.d
FGt(a, b) == FLt(b, a)
FLe(a, b) == ~IsNaN(a) /\ ~IsNaN(b) /\ ~FLt(b, a)

FNeg(a) == [n |-> -a.n, d |-> a.d]
\* math.Abs
FAbs(a) == [n |-> Abs(a.n), d |-> a.d]

FAdd(a, b) ==
    IF IsNaN(a) \/ IsNaN(b) THEN NaN
    ELSE IF a.d = 0 /\ b.d = 0 THEN (IF a = b THEN a ELSE NaN)
    ELSE IF a.d = 0 THEN a
    ELSE IF b.d = 0 THEN b
    ELSE Norm(a.n * b.d + b.n * a.d, a.d * b.d)
FSub(a, b) == FAdd(a, FNeg(b))

FMul(a, b) ==
    IF IsNaN(a) \/ IsNaN(b) THEN NaN
    ELSE IF a.d = 0 \/ b.d = 0
         THEN (IF Sign(a) * Sign(b) = 0 THEN NaN
               ELSE [n |-> Sign(a) * Sign(b), d |-> 0])
    ELSE Norm(a.n * b.n, a.d * b.d)

\* a / b: a finite nonzero value over zero is an infinity, 0/0 is NaN
FDiv(a, b) ==
    IF IsNaN(a) \/ IsNaN(b) THEN NaN
    ELSE IF a.d = 0 THEN (IF b.d = 0 THEN NaN
                           ELSE [n |-> Sign(a) * (IF b.n < 0 THEN -1 ELSE 1), d |-> 0])
    ELSE IF b.d = 0 THEN Num(0)
    ELSE IF b.n = 0 THEN [n |-> Sign(a), d |-> 0]
    ELSE Norm(a.n * b.d, a.d * b.n)

\* math.Min and math.Max
FMin(a, b) == IF IsNaN(a) \/ IsNaN(b) THEN NaN ELSE IF FLt(b, a) THEN b ELSE a
FMax(a, b) == IF IsNaN(a) \/ IsNaN(b) THEN NaN ELSE IF FLt(a, b) THEN b ELSE a

-----------------------------------------------------------------------------
(* calculateTrendPercent                                                   *)

\* the function with the magnitude-decrease branch dividing by |previous|
calculateTrendPercentByPrevious(current, previous) ==
    IF previous = Num(0)
    THEN (IF FGt(current, Num(0)) THEN Num(100) ELSE Num(0))
    ELSE IF (FLt(current, Num(0)) /\ FGt(previous, Num(0)))
            \/ (FGt(current, Num(0)) /\ FLt(previous, Num(0)))
    THEN Num(-100)
    ELSE IF FLt(FAbs(current), FAbs(previous))
    THEN FNeg(FMul(FDiv(FSub(FAbs(previous), FAbs(current)), FAbs(previous)), Num(100)))
    ELSE FMul(FDiv(FSub(FAbs(current), FAbs(previous)), FAbs(previous)), Num(100))

\* the function with a zero baseline met by current >= 0 instead of current > 0
calculateTrendPercentZeroGrowth(current, previous) ==
    IF previous = Num(0)
    THEN (IF FLe(Num(0), current) THEN Num(100) ELSE Num(0))
    ELSE IF (FLt(current, Num(0)) /\ FGt(previous, Num(0)))
            \/ (FGt(current, Num(0)) /\ FLt(previous, Num(0)))
    THEN Num(-100)
    ELSE IF FLt(FAbs(current), FAbs(previous))
    THEN FNeg(FMul(FDiv(FSub(FAbs(previous), FAbs(current)), FAbs(current)), Num(100)))
    ELSE FMul(FDiv(FSub(FAbs(current), FAbs(previous)), FAbs(previous)), Num(100))

\* the function without the branch for opposite signs
calculateTrendPercentNoReversal(current, previous) ==
    IF previous = Num(0)
    THEN (IF FGt(current, Num(0)) THEN Num(100) ELSE Num(0))
    ELSE IF FLt(FAbs(current), FAbs(previous))
    THEN FNeg(FMul(FDiv(FSub(FAbs(previous), FAbs(current)), FAbs(current)), Num(100)))
    ELSE FMul(FDiv(FSub(FAbs(current), FAbs(previous)), FAbs(previous)), Num(100))

\* lines 313-335
calculateTrendPercent(current, previous) ==
    IF previous = Num(0)
    THEN (IF FGt(current, Num(0)) THEN Num(100) ELSE Num(0))
    ELSE IF (FLt(current, Num(0)) /\ FGt(previous, Num(0)))
            \/ (FGt(current, Num(0)) /\ FLt(previous, Num(0)))
    THEN Num(-100)
    ELSE IF FLt(FAbs(current), FAbs(previous))
    THEN FNeg(FMul(FDiv(FSub(FAbs(previous), FAbs(current)), FAbs(current)), Num(100)))
    ELSE FMul(FDiv(FSub(FAbs(current), FAbs(previous)), FAbs(previous)), Num(100))

-----------------------------------------------------------------------------
(* Bounds of the model                                                     *)

\* inputs of calculateTrendPercent are the rationals n/d, |n| <= MaxNum, 1 <= d <= MaxDen
MaxNum == 5
MaxDen == 2
\* resolution of the clock
TicksPerSec == 2
SecPerDay == 2
\* rows of the transactions table, and days the clock runs
MaxTxns == 2
MaxDays == 2
\* transactions in a list handed to the fill functions directly
MaxSupplied == 2

Floats == { Norm(n, d) : n \in -MaxNum..MaxNum, d \in 1..MaxDen }

\* the amounts a user enters (signed as handleMessage signs them)
Amounts == {-100, 0, 1000, 4000}

\* years of the calendar
Years == 2023..2024

-----------------------------------------------------------------------------
(* package time                                                            *)

TicksPerDay == TicksPerSec * SecPerDay
FirstYear == CHOOSE y \in Years : \A z \in Years : y <= z

IsLeap(y) == (y % 4 = 0 /\ y % 100 # 0) \/ y % 400 = 0
DaysInYear(y) == IF IsLeap(y) THEN 366 ELSE 365
DaysIn(y, m) ==
    IF m = 2 THEN (IF IsLeap(y) THEN 29 ELSE 28)
    ELSE IF m \in {4, 6, 9, 11} THEN 30 ELSE 31

RECURSIVE DaysBeforeYear(_)
DaysBeforeYear(y) ==
    IF y = FirstYear THEN 0
    ELSE IF y > FirstYear THEN DaysBeforeYear(y - 1) + DaysInYear(y - 1)
    ELSE DaysBeforeYear(y + 1) - DaysInYear(y)

\* days of the year before month m (the table daysBefore of package time)
DaysBeforeMonth(y, m) ==
    <<0, 31, 59, 90, 120, 151, 181, 212, 243, 273, 304, 334>>[m]
    + (IF m > 2 /\ IsLeap(y) THEN 1 ELSE 0)

\* time.Date(year, month, day, <sec of day>, <tick of sec>, loc): month and day
\* outside their ranges are normalised (month 13 is January of the next
\* year, day 0 the last day of the month before)
Date(y, m, d, sec, tick) ==
    LET yy == y + ((m - 1) \div 12)
        mm == ((m - 1) % 12) + 1
    IN  (DaysBeforeYear(yy) + DaysBeforeMonth(yy, mm) + d - 1) * TicksPerDay
        + sec * TicksPerSec + tick

\* t.Date(): the year, month and day of instant t
DayNumber(t) == t \div TicksPerDay
Civil(t) ==
    CHOOSE c \in { [year |-> y, month |-> m,
                    day |-> DayNumber(t) - DaysBeforeYear(y) - DaysBeforeMonth(y, m) + 1] :
                      y \in (FirstYear - 1)..(FirstYear + Cardinality(Years)),
                      m \in 1..12 } :
        1 <= c.day /\ c.day <= DaysIn(c.year, c.month)
Year(t) == Civil(t).year
Month(t) == Civil(t).month
Day(t) == Civil(t).day

\* 23:59:59 and 999999999 ns: the last second of a day and the last tick of a second
LastSec == SecPerDay - 1
LastTick == TicksPerSec - 1

\* t.Format("2006-01-02"): the calendar day of t
DayKey(t) == DayNumber(t)
\* t.Format(time.RFC3339): seconds resolution, the fraction of a second is dropped
FormatRFC3339(t) == t - (t % TicksPerSec)

-----------------------------------------------------------------------------
(* GetReport: the windows                                                  *)

ReportTypes == {"DailyReport", "WeeklyReport", "MonthlyReport", "YearlyReport"}

\* the switch on reportType, y, m and d being now.Year(), now.Month(), now.Day()
WindowOfDay(reportType, y, m, d) ==
    CASE reportType = "DailyReport" ->
           [startDate |-> Date(y, m, d, 0, 0), endDate |-> Date(y, m, d, LastSec, LastTick)]
      [] reportType = "WeeklyReport" ->
           [startDate |-> Date(y, m, d - 7, 0, 0), endDate |-> Date(y, m, d, LastSec, LastTick)]
      [] reportType = "MonthlyReport" ->
           [startDate |-> Date(y, m, 1, 0, 0), endDate |-> Date(y, m + 1, 0, LastSec, LastTick)]
      [] reportType = "YearlyReport" ->
           [startDate |-> Date(y, 1, 1, 0, 0), endDate |-> Date(y, 12, 31, LastSec, LastTick)]

\* the current window [startDate, endDate] of a report asked at instant t
ReportWindow(reportType, t) == WindowOfDay(reportType, Year(t), Month(t), Day(t))

\* periodDuration := endDate.Sub(startDate); prevEndDate = startDate.Add(-time.Nanosecond);
\* prevStartDate = prevEndDate.Add(-periodDuration).Add(time.Nanosecond)
PrevWindow(startDate, endDate) ==
    LET periodDuration == endDate - startDate
        prevEndDate == startDate - 1
    IN  [prevStartDate |-> (prevEndDate - periodDuration) + 1, prevEndDate |-> prevEndDate]

-----------------------------------------------------------------------------
(* Repository                                                              *)

\* SupabaseRepository.GetTransactions: date >= StartDate.Format(RFC3339) and
\* date <= EndDate.Format(RFC3339), ordered by date (insertion order among equal dates;
\* the stored dates never decrease, as each is the midnight of the day of its insert)
GetTransactions(rows, startDate, endDate) ==
    SelectSeq(rows, LAMBDA t : FormatRFC3339(startDate) <= t.Date
                               /\ t.Date <= FormatRFC3339(endDate))

-----------------------------------------------------------------------------
(* BaseReport and its parts                                                *)

\* the zero time.Time, earlier than every instant of the model
ZeroTime == Date(FirstYear - 1, 1, 1, 0, 0)

ZeroTransactionInfo == [Amount |-> 0, CategoryID |-> "", Date |-> ZeroTime]
ZeroCategoryChange ==
    [CategoryID |-> "", Name |-> "", ChangeValue |-> 0, ChangePercent |-> Num(0)]
ZeroPeriodStats ==
    [TotalIncome |-> 0, TotalExpenses |-> 0, Balance |-> 0,
     AvgDailyIncome |-> Num(0), AvgDailyExpense |-> Num(0),
     DailyAvgIncome |-> Num(0), DailyAvgExpense |-> Num(0),
     ExpensesByCategory |-> << >>, IncomeByCategory |-> << >>]

ZeroReport ==
    [StartDate |-> ZeroTime, EndDate |-> ZeroTime,
     TotalIncome |-> 0, TotalExpenses |-> 0, Balance |-> 0,
     TransactionData |->
        [TotalCount |-> 0, IncomeCount |-> 0, ExpenseCount |-> 0,
         AvgIncome |-> Num(0), AvgExpense |-> Num(0),
         DailyAvgIncome |-> Num(0), DailyAvgExpense |-> Num(0),
         MaxIncome |-> ZeroTransactionInfo, MaxExpense |-> ZeroTransactionInfo],
     CategoryData |->
        [Expenses |-> << >>, Income |-> << >>,
         Changes |-> [FastestGrowingExpense |-> ZeroCategoryChange,
                      FastestGrowingIncome |-> ZeroCategoryChange,
                      LargestDropExpense |-> ZeroCategoryChange,
                      LargestDropIncome |-> ZeroCategoryChange]],
     Trends |->
        [ExpenseTrend |-> << >>, IncomeTrend |-> << >>,
         PeriodComparison |->
            [PrevPeriod |-> ZeroPeriodStats, CurrentPeriod |-> ZeroPeriodStats,
             ExpenseChange |-> Num(0), IncomeChange |-> Num(0), BalanceChange |-> Num(0)]]]

-----------------------------------------------------------------------------
(* Helpers standing for the loops of the code                              *)

RECURSIVE SumSeq(_)
SumSeq(q) == IF q = << >> THEN 0 ELSE Head(q) + SumSeq(Tail(q))

AmountsOf(txns) == [i \in 1..Len(txns) |-> txns[i].Amount]

\* t.Date.Before(start) || t.Date.After(end)
OutsidePeriod(t, start, end) == t.Date < start \/ t.Date > end

\* the transactions a loop handles after `continue` on those outside the period
InPeriod(txns, start, end) == SelectSeq(txns, LAMBDA t : ~OutsidePeriod(t, start, end))

\* the expense total as the signed sum of the amounts that are not positive
ExpenseOf_Signed(txns) == SumSeq(AmountsOf(SelectSeq(txns, LAMBDA t : ~(t.Amount > 0))))

\* sum of t.Amount over amount > 0, and of -t.Amount over the others
IncomeOf(txns) == SumSeq(AmountsOf(SelectSeq(txns, LAMBDA t : t.Amount > 0)))
ExpenseOf(txns) == -SumSeq(AmountsOf(SelectSeq(txns, LAMBDA t : ~(t.Amount > 0))))

\* if value > best.Amount { best = this transaction }, over the list in
\* order, value being sign * t.Amount (t.Amount for incomes, -t.Amount for expenses)
RECURSIVE MaxInfo(_, _, _)
MaxInfo(txns, sign, best) ==
    IF txns = << >> THEN best
    ELSE LET t == Head(txns)
         IN  MaxInfo(Tail(txns), sign,
                     IF sign * t.Amount > best.Amount
                     THEN [Amount |-> sign * t.Amount, CategoryID |-> t.CategoryID,
                           Date |-> t.Date]
                     ELSE best)

\* the sum of the values of a map
RECURSIVE SumOver(_)
SumOver(f) ==
    IF DOMAIN f = {} THEN 0
    ELSE LET x == CHOOSE y \in DOMAIN f : TRUE
         IN  f[x] + SumOver([y \in DOMAIN f \ {x} |-> f[y]])

\* end.Sub(start).Hours() / 24
DaysBetween(start, end) == Norm(end - start, TicksPerDay)

-----------------------------------------------------------------------------
(* fillTransactionStats                                                    *)

\* the aggregation loop counting every transaction it is given
TransactionsCounted_NoFilter(rep, txns) == txns

\* lines 564-568: the loop skips the transactions outside [StartDate, EndDate]
TransactionsCounted(rep, txns) == InPeriod(txns, rep.StartDate, rep.EndDate)

fillTransactionStats(rep, txns) ==
    LET counted == TransactionsCounted(rep, txns)
        incomes == SelectSeq(counted, LAMBDA t : t.Amount > 0)
        expenses == SelectSeq(counted, LAMBDA t : ~(t.Amount > 0))
        totalIncome == IncomeOf(counted)
        totalExpense == ExpenseOf(counted)
        incomeCount == Len(incomes)
        expenseCount == Len(expenses)
        days0 == FAdd(DaysBetween(rep.StartDate, rep.EndDate), Num(1))
        days == IF FLt(days0, Num(1)) THEN Num(1) ELSE days0
    IN  [rep EXCEPT
           !.TotalIncome = totalIncome,
           !.TotalExpenses = totalExpense,
           !.Balance = totalIncome - totalExpense,
           !.TransactionData =
               [TotalCount |-> incomeCount + expenseCount,
                IncomeCount |-> incomeCount,
                ExpenseCount |-> expenseCount,
                AvgIncome |-> IF incomeCount > 0
                              THEN FDiv(Num(totalIncome), Num(incomeCount)) ELSE Num(0),
                AvgExpense |-> IF expenseCount > 0
                               THEN FDiv(Num(totalExpense), Num(expenseCount)) ELSE Num(0),
                DailyAvgIncome |-> FDiv(Num(totalIncome), days),
                DailyAvgExpense |-> FDiv(Num(totalExpense), days),
                MaxIncome |-> MaxInfo(incomes, 1,
                                      rep.TransactionData.MaxIncome),
                MaxExpense |-> MaxInfo(expenses, -1,
                                       rep.TransactionData.MaxExpense)]]

-----------------------------------------------------------------------------
(* fillCategoryAnalytics and findCategoryChanges                           *)

\* keys of the maps built from the category list
CategoryIDs(cats) == { cats[i].ID : i \in 1..Len(cats) }
\* categoryTypes[id], categoryNames[id]: the last row with that id wins
CategoryRow(cats, id) ==
    cats[CHOOSE i \in 1..Len(cats) :
            cats[i].ID = id /\ \A j \in 1..Len(cats) : cats[j].ID = id => j <= i]

\* the orders in which `range` may walk a map with these keys
IterationOrders(keys) ==
    { o \in [1..Cardinality(keys) -> keys] : \A a, b \in 1..Cardinality(keys) : o[a] = o[b] => a = b }

\* sort.Slice with less(i, j) = key(i) > key(j), the key being Amount or,
\* where absolute, math.Abs(Amount): descending by key; elements with equal
\* keys stay in the order they were appended in
SortKey(c, absolute) == IF absolute THEN Abs(c.Amount) ELSE c.Amount

RECURSIVE InsertDesc(_, _, _)
InsertDesc(x, sorted, absolute) ==
    IF sorted = << >> THEN <<x>>
    ELSE IF SortKey(x, absolute) > SortKey(Head(sorted), absolute) THEN <<x>> \o sorted
    ELSE <<Head(sorted)>> \o InsertDesc(x, Tail(sorted), absolute)

RECURSIVE SortDesc(_, _)
SortDesc(list, absolute) ==
    IF list = << >> THEN << >>
    ELSE InsertDesc(list[Len(list)], SortDesc(SubSeq(list, 1, Len(list) - 1), absolute),
                    absolute)

\* the loop over currentStats, walked in `order`, updating the four records
\* (a category without previous amount is passed over)
RECURSIVE CategoryChangesLoop(_, _, _, _, _)
CategoryChangesLoop(changes, order, currentStats, prevAmounts, categoryNames) ==
    IF order = << >> THEN changes
    ELSE
      LET catID == Head(order)
          stats == currentStats[catID]
          prevAmount == prevAmounts[catID]
          change == stats.Amount - prevAmount
          changePercent == calculateTrendPercent(Num(change), Num(prevAmount))
          categoryChange == [CategoryID |-> catID, Name |-> categoryNames[catID],
                             ChangeValue |-> change, ChangePercent |-> changePercent]
          next ==
            IF prevAmount = 0 THEN changes
            ELSE IF stats.Amount >= 0
            THEN (IF FGt(changePercent, changes.FastestGrowingIncome.ChangePercent)
                  THEN [changes EXCEPT !.FastestGrowingIncome = categoryChange]
                  ELSE IF FLt(changePercent, changes.LargestDropIncome.ChangePercent)
                  THEN [changes EXCEPT !.LargestDropIncome = categoryChange]
                  ELSE changes)
            ELSE (IF FGt(changePercent, changes.FastestGrowingExpense.ChangePercent)
                  THEN [changes EXCEPT !.FastestGrowingExpense = categoryChange]
                  ELSE IF FLt(changePercent, changes.LargestDropExpense.ChangePercent)
                  THEN [changes EXCEPT !.LargestDropExpense = categoryChange]
                  ELSE changes)
      IN  CategoryChangesLoop(next, Tail(order), currentStats, prevAmounts, categoryNames)

\* the four records start as zero values and are stored after the loop
findCategoryChanges(order, currentStats, prevAmounts, categoryNames) ==
    CategoryChangesLoop(ZeroReport.CategoryData.Changes, order, currentStats, prevAmounts,
                        categoryNames)

\* the transactions of a list that carry category id and a negative amount
OfCategory_Negative(txns, id) ==
    SelectSeq(txns, LAMBDA t : t.CategoryID = id /\ t.Amount < 0)

\* the transactions of a list that carry category id
OfCategory(txns, id) == SelectSeq(txns, LAMBDA t : t.CategoryID = id)

\* The value the function leaves in report.CategoryData.  listOrder and
\* changesOrder are the orders in which the two order-sensitive loops over the
\* map categoryStats walk it
fillCategoryAnalytics(rep, currentTransactions, prevTransactions, cats, listOrder, changesOrder) ==
    LET ids == CategoryIDs(cats)
        current == InPeriod(currentTransactions, rep.StartDate, rep.EndDate)
        prevW == PrevWindow(rep.StartDate, rep.EndDate)
        prev == InPeriod(prevTransactions, prevW.prevStartDate, prevW.prevEndDate)
        amount == [id \in ids |-> SumSeq(AmountsOf(OfCategory(current, id)))]
        count == [id \in ids |-> Len(OfCategory(current, id))]
        prevCategoryAmounts == [id \in ids |-> SumSeq(AmountsOf(OfCategory(prev, id)))]
        isIncome(id) == CategoryRow(cats, id).Type = "income"
        used == { id \in ids : count[id] > 0 }
        totalIncome == SumOver([id \in { i \in used : isIncome(i) } |-> amount[id]])
        totalExpense == SumOver([id \in { i \in used : ~isIncome(i) } |-> Abs(amount[id])])
        categoryStats ==
            [id \in ids |->
                [CategoryID |-> id,
                 Name |-> CategoryRow(cats, id).Name,
                 Amount |-> amount[id],
                 Count |-> count[id],
                 AvgAmount |-> IF count[id] > 0
                               THEN FDiv(Num(amount[id]), Num(count[id])) ELSE Num(0),
                 Share |-> IF count[id] = 0 THEN Num(0)
                           ELSE IF isIncome(id)
                           THEN (IF totalIncome > 0
                                 THEN FMul(FDiv(Num(amount[id]), Num(totalIncome)), Num(100))
                                 ELSE Num(0))
                           ELSE (IF totalExpense > 0
                                 THEN FMul(FDiv(Num(Abs(amount[id])), Num(totalExpense)), Num(100))
                                 ELSE Num(0)),
                 TrendPercent |-> IF count[id] > 0 /\ prevCategoryAmounts[id] # 0
                                  THEN calculateTrendPercent(Num(amount[id]),
                                                             Num(prevCategoryAmounts[id]))
                                  ELSE Num(0)]]
        listed == [k \in 1..Len(listOrder) |-> categoryStats[listOrder[k]]]
        income == SelectSeq(listed, LAMBDA c : c.Count > 0 /\ isIncome(c.CategoryID))
        expenses == SelectSeq(listed, LAMBDA c : c.Count > 0 /\ ~isIncome(c.CategoryID))
        categoryNames == [id \in ids |-> CategoryRow(cats, id).Name]
    IN  [Income |-> SortDesc(rep.CategoryData.Income \o income, FALSE),
         Expenses |-> SortDesc(rep.CategoryData.Expenses \o expenses, TRUE),
         Changes |-> findCategoryChanges(changesOrder, categoryStats,
                                         prevCategoryAmounts, categoryNames)]

-----------------------------------------------------------------------------
(* fillTrendAnalytics and groupTransactionsByDay                           *)

\* map from day key to dailyStats, over every transaction of the list;
\* a day that is no key reads as the zero dailyStats
groupTransactionsByDay(txns) ==
    LET keys == { DayKey(txns[i].Date) : i \in 1..Len(txns) }
        onDay(k) == SelectSeq(txns, LAMBDA t : DayKey(t.Date) = k)
    IN  [k \in keys |-> [income |-> IncomeOf(onDay(k)), expense |-> ExpenseOf(onDay(k))]]

\* the loop stopping one day early: the dates whose next day is not after end
TrendDates_WithoutLastDay(start, end) ==
    [j \in 1..(IF start > end THEN 0 ELSE (end - start) \div TicksPerDay) |->
        start + (j - 1) * TicksPerDay]

\* for date := StartDate; !date.After(EndDate); date = date.AddDate(0, 0, 1)
\* (the dates start, start + 1 day, ... that are not after end)
TrendDates(start, end) ==
    [j \in 1..(IF start > end THEN 0 ELSE ((end - start) \div TicksPerDay) + 1) |->
        start + (j - 1) * TicksPerDay]

\* the change stored as computed
ClampChange_Unclamped(change) == change

\* math.Max(math.Min(change, 200), -100)
ClampChange(change) == FMax(FMin(change, Num(200)), Num(-100))

\* the totals of one side of the period comparison with the balance as a sum
PeriodTotals_BalanceSum(txns, start, end, days) ==
    LET counted == InPeriod(txns, start, end)
    IN  [ZeroPeriodStats EXCEPT
           !.TotalIncome = IncomeOf(counted),
           !.TotalExpenses = ExpenseOf(counted),
           !.Balance = IncomeOf(counted) + ExpenseOf(counted),
           !.DailyAvgIncome = FDiv(Num(IncomeOf(counted)), days),
           !.DailyAvgExpense = FDiv(Num(ExpenseOf(counted)), days)]

\* lines 818-830 and 838-850: the totals of one side of the period comparison
PeriodTotals(txns, start, end, days) ==
    LET counted == InPeriod(txns, start, end)
    IN  [ZeroPeriodStats EXCEPT
           !.TotalIncome = IncomeOf(counted),
           !.TotalExpenses = ExpenseOf(counted),
           !.Balance = IncomeOf(counted) - ExpenseOf(counted),
           !.DailyAvgIncome = FDiv(Num(IncomeOf(counted)), days),
           !.DailyAvgExpense = FDiv(Num(ExpenseOf(counted)), days)]

\* the day count raised by every day of the map, whatever its income
DaysWithIncome_AnyActivity(daily) == Cardinality(DOMAIN daily)

\* lines 758-767: daysWithIncome and daysWithExpense, raised only by the days
\* of the map whose income (expense) is positive
DaysWithIncome(daily) == Cardinality({ k \in DOMAIN daily : daily[k].income > 0 })
DaysWithExpense(daily) == Cardinality({ k \in DOMAIN daily : daily[k].expense > 0 })

\* The value the function leaves in report.Trends
fillTrendAnalytics(rep, currentTransactions, prevTransactions) ==
    LET currentDaily == groupTransactionsByDay(currentTransactions)
        incomeDays == { k \in DOMAIN currentDaily : currentDaily[k].income > 0 }
        expenseDays == { k \in DOMAIN currentDaily : currentDaily[k].expense > 0 }
        totalIncome == SumOver([k \in incomeDays |-> currentDaily[k].income])
        totalExpense == SumOver([k \in expenseDays |-> currentDaily[k].expense])
        daysWithIncome == DaysWithIncome(currentDaily)
        daysWithExpense == DaysWithExpense(currentDaily)
        avgDailyIncome == IF daysWithIncome > 0
                          THEN FDiv(Num(totalIncome), Num(daysWithIncome)) ELSE Num(0)
        avgDailyExpense == IF daysWithExpense > 0
                           THEN FDiv(Num(totalExpense), Num(daysWithExpense)) ELSE Num(0)
        dates == TrendDates(rep.StartDate, rep.EndDate)
        activeDays == DOMAIN currentDaily
        \* the point of a day that is no key of currentDaily (it reads as the zero dailyStats)
        idleIncome == [Amount |-> 0, Change |-> calculateTrendPercent(Num(0), avgDailyIncome)]
        idleExpense == [Amount |-> 0, Change |-> calculateTrendPercent(Num(0), avgDailyExpense)]
        incomeAt(date) ==
            IF DayKey(date) \in activeDays
            THEN [Amount |-> currentDaily[DayKey(date)].income,
                  Change |-> calculateTrendPercent(Num(currentDaily[DayKey(date)].income),
                                                   avgDailyIncome)]
            ELSE idleIncome
        expenseAt(date) ==
            IF DayKey(date) \in activeDays
            THEN [Amount |-> -currentDaily[DayKey(date)].expense,
                  Change |-> calculateTrendPercent(Num(currentDaily[DayKey(date)].expense),
                                                   avgDailyExpense)]
            ELSE idleExpense
        incomeTrend ==
            [j \in 1..Len(dates) |->
                [Date |-> dates[j], Amount |-> incomeAt(dates[j]).Amount,
                 Change |-> incomeAt(dates[j]).Change]]
        expenseTrend ==
            [j \in 1..Len(dates) |->
                [Date |-> dates[j], Amount |-> expenseAt(dates[j]).Amount,
                 Change |-> expenseAt(dates[j]).Change]]
        days0 == DaysBetween(rep.StartDate, rep.EndDate)
        days == IF FLt(days0, Num(1)) THEN Num(1) ELSE days0
        currentPeriod == PeriodTotals(currentTransactions, rep.StartDate, rep.EndDate, days)
        prevW == PrevWindow(rep.StartDate, rep.EndDate)
        prevPeriod == PeriodTotals(prevTransactions, prevW.prevStartDate, prevW.prevEndDate, days)
        old == rep.Trends.PeriodComparison
    IN  [IncomeTrend |-> incomeTrend,
         ExpenseTrend |-> expenseTrend,
         PeriodComparison |->
            [CurrentPeriod |-> currentPeriod,
             PrevPeriod |-> prevPeriod,
             ExpenseChange |-> IF prevPeriod.TotalExpenses > 0
                               THEN ClampChange(calculateTrendPercent(
                                        Num(currentPeriod.TotalExpenses),
                                        Num(prevPeriod.TotalExpenses)))
                               ELSE old.ExpenseChange,
             IncomeChange |-> IF prevPeriod.TotalIncome > 0
                              THEN ClampChange(calculateTrendPercent(
                                       Num(currentPeriod.TotalIncome),
                                       Num(prevPeriod.TotalIncome)))
                              ELSE old.IncomeChange,
             BalanceChange |-> IF prevPeriod.Balance # 0
                               THEN ClampChange(calculateTrendPercent(
                                        Num(currentPeriod.Balance),
                                        Num(prevPeriod.Balance)))
                               ELSE old.BalanceChange]]

-----------------------------------------------------------------------------
(* GetMonthlyReport: analyzePeriod, formatCategoryStats, calculateTrends   *)

\* categoryNames[id], "" for an id that is no key
NameOf(categoryNames, id) == IF id \in DOMAIN categoryNames THEN categoryNames[id] ELSE ""

\* the map name -> sum of sign * amount over the transactions of a list
ByCategoryName(txns, categoryNames, sign) ==
    [n \in { NameOf(categoryNames, txns[i].CategoryID) : i \in 1..Len(txns) } |->
        sign * SumSeq(AmountsOf(SelectSeq(txns,
                   LAMBDA t : NameOf(categoryNames, t.CategoryID) = n)))]

\* analyzePeriod(transactions, start, end, categoryNames): every transaction
\* of the list is counted; start and end only give the number of days
analyzePeriod(txns, start, end, categoryNames) ==
    LET days == DaysBetween(start, end)
        totalIncome == IncomeOf(txns)
        totalExpenses == ExpenseOf(txns)
    IN  [TotalIncome |-> totalIncome,
         TotalExpenses |-> totalExpenses,
         Balance |-> totalIncome - totalExpenses,
         AvgDailyIncome |-> FDiv(Num(totalIncome), days),
         AvgDailyExpense |-> FDiv(Num(totalExpenses), days),
         DailyAvgIncome |-> FDiv(Num(totalIncome), days),
         DailyAvgExpense |-> FDiv(Num(totalExpenses), days),
         ExpensesByCategory |->
             ByCategoryName(SelectSeq(txns, LAMBDA t : ~(t.Amount > 0)), categoryNames, -1),
         IncomeByCategory |->
             ByCategoryName(SelectSeq(txns, LAMBDA t : t.Amount > 0), categoryNames, 1)]

\* formatCategoryStats(current, previous), the map current walked in `order`
formatCategoryStats(current, previous, order) ==
    LET total == SumOver(current)
        stat(n) ==
            [CategoryID |-> "", Name |-> n, Amount |-> current[n], Count |-> 0,
             AvgAmount |-> Num(0),
             Share |-> FMul(FDiv(Num(current[n]), Num(total)), Num(100)),
             TrendPercent |->
                 calculateTrendPercent(Num(current[n]),
                                       Num(IF n \in DOMAIN previous THEN previous[n] ELSE 0))]
    IN  SortDesc([k \in 1..Len(order) |-> stat(order[k])], FALSE)

\* the keys of a map of days in ascending order
RECURSIVE Ascending(_)
Ascending(S) ==
    IF S = {} THEN << >>
    ELSE LET m == CHOOSE x \in S : \A y \in S : x <= y
         IN  <<m>> \o Ascending(S \ {m})

\* lines 415-418: sort.Slice(transactions, ... Date.Before ...) orders the
\* caller's slice in place, ascending by date; the insertion sort that
\* sort.Slice uses for short slices keeps equal dates in their order
RECURSIVE InsertByDate(_, _)
InsertByDate(t, sorted) ==
    IF sorted = << >> THEN <<t>>
    ELSE IF t.Date < Head(sorted).Date THEN <<t>> \o sorted
    ELSE <<Head(sorted)>> \o InsertByDate(t, Tail(sorted))

RECURSIVE SortedByDate(_)
SortedByDate(txns) ==
    IF txns = << >> THEN << >>
    ELSE InsertByDate(txns[Len(txns)], SortedByDate(SubSeq(txns, 1, Len(txns) - 1)))

\* calculateTrends(transactions): one point per day that has a transaction,
\* Change being the difference to the point before (to 0 for the first)
calculateTrends(txns) ==
    LET daily == groupTransactionsByDay(txns)
        dates == Ascending(DOMAIN daily)
        point(j, amount(_)) ==
            [Date |-> dates[j] * TicksPerDay,
             Amount |-> amount(dates[j]),
             Change |-> Num(amount(dates[j]) - (IF j = 1 THEN 0 ELSE amount(dates[j - 1])))]
    IN  [expenseTrend |-> [j \in 1..Len(dates) |-> point(j, LAMBDA k : daily[k].expense)],
         incomeTrend |-> [j \in 1..Len(dates) |-> point(j, LAMBDA k : daily[k].income)]]

-----------------------------------------------------------------------------
(* State                                                                   *)

VARIABLES
    now,            \* time.Now()
    transactions,   \* rows of table transactions of the user, in insertion order
    categories,     \* rows of table categories of the user
    request,        \* the locals of the service call being served, or Null
    report,         \* the *BaseReport that call returns, or NoReport
    input,          \* arguments of the function under test (function specifications)
    output          \* its result

vars == <<now, transactions, categories, request, report, input, output>>

Null == [op |-> "none"]
NoReport == [none |-> TRUE]

\* the instant the clock starts at: 29 February 2024, not at midnight
StartNow == Date(2024, 2, 29, LastSec, 0)

\* the categories the user creates, in this order
UserCategories ==
    << [ID |-> "c1", Name |-> "Food", Type |-> "expense"],
       [ID |-> "c2", Name |-> "Salary", Type |-> "income"] >>

-----------------------------------------------------------------------------
(* The answers of the repository to the calls of a report                  *)

\* the three calls of GetReport and of GetMonthlyReport, in the order of the code
RepositoryCalls == <<"GetTransactions current", "GetTransactions previous", "GetCategories">>

\* what the repository answers to each of them if it is called
RepositoryOutcomes == [1..Len(RepositoryCalls) -> {"ok", "error"}]

\* the first call answered by an error, 0 if there is none
FirstError(outcomes) ==
    IF \A i \in DOMAIN outcomes : outcomes[i] = "ok" THEN 0
    ELSE CHOOSE i \in DOMAIN outcomes :
            outcomes[i] = "error" /\ \A j \in 1..(i - 1) : outcomes[j] = "ok"

\* every call made whatever the answers to the earlier ones
CallsMade_All(outcomes) == RepositoryCalls

\* `if err != nil { return nil, ... }` after each call: the calls made are
\* those up to the first error
CallsMade(outcomes) ==
    SubSeq(RepositoryCalls, 1,
           IF FirstError(outcomes) = 0 THEN Len(RepositoryCalls) ELSE FirstError(outcomes))

\* the error of the repository for its i-th call
RepositoryError(i) == [repository |-> RepositoryCalls[i]]

\* a nil error
NoError == [nil |-> TRUE]

\* fmt.Errorf("failed to get ...: %w", err) of GetReport
ReportErrors ==
    <<"failed to get current period transactions",
      "failed to get previous period transactions",
      "failed to get categories">>

\* fmt.Errorf("failed to get ...: %w", err) of GetMonthlyReport
MonthlyReportErrors ==
    <<"failed to get current month transactions",
      "failed to get previous month transactions",
      "failed to get categories">>

\* the locals of a call that returns (nil, err) after its last call failed
Failed(op, reportType, outcomes, messages) ==
    [op |-> op, reportType |-> reportType, outcomes |-> outcomes,
     calls |-> CallsMade(outcomes),
     err |-> [msg |-> messages[Len(CallsMade(outcomes))],
              wraps |-> RepositoryError(Len(CallsMade(outcomes)))]]

-----------------------------------------------------------------------------
(* The service: ExpenseTracker                                             *)

Init ==
    /\ now = StartNow
    /\ transactions = << >>
    /\ categories = << >>
    /\ request = Null
    /\ report = NoReport
    /\ input = Null
    /\ output = Null

\* time passes between two requests
ClockAdvance ==
    /\ request = Null
    /\ DayNumber(now) + 1 < DayNumber(StartNow) + MaxDays
    /\ now' = now + TicksPerDay
    /\ UNCHANGED <<transactions, categories, request, report, input, output>>

\* CreateCategory(ctx, category): the user creates the next category
CreateCategory ==
    /\ request = Null
    /\ Len(categories) < Len(UserCategories)
    /\ categories' = Append(categories, UserCategories[Len(categories) + 1])
    /\ UNCHANGED <<now, transactions, request, report, input, output>>

\* AddTransaction(ctx, userID, categoryID, amount, description): the date is
\* today's midnight.  handleMessage passes the category selected in the dialog
\* and the typed number, negated for an expense category, so that every pair
\* of a category and a signed amount can arrive here
AddTransaction(categoryID, amount) ==
    /\ request = Null
    /\ Len(transactions) < MaxTxns
    /\ transactions' = Append(transactions,
                              [CategoryID |-> categoryID, Amount |-> amount,
                               Date |-> Date(Year(now), Month(now), Day(now), 0, 0)])
    /\ UNCHANGED <<now, categories, request, report, input, output>>

\* GetReport(ctx, userID, reportType), the repository answering its calls
\* with outcomes: the report after three answered calls, (nil, err) after the
\* first error
GetReport(reportType, outcomes) ==
    /\ request = Null
    /\ IF FirstError(outcomes) # 0
       THEN /\ request' = Failed("GetReport failed", reportType, outcomes, ReportErrors)
            /\ report' = NoReport
       ELSE
       \E w \in { ReportWindow(reportType, now) } :
       \E pw \in { PrevWindow(w.startDate, w.endDate) } :
       \E currentTransactions \in { GetTransactions(transactions, w.startDate, w.endDate) } :
       \E prevTransactions \in
             { GetTransactions(transactions, pw.prevStartDate, pw.prevEndDate) } :
       \E rep1 \in { fillTransactionStats(
                         [ZeroReport EXCEPT !.StartDate = w.startDate, !.EndDate = w.endDate],
                         currentTransactions) } :
       \E categoryData \in
             { fillCategoryAnalytics(rep1, currentTransactions, prevTransactions,
                                     categories, listOrder, changesOrder) :
                 listOrder \in IterationOrders(CategoryIDs(categories)),
                 changesOrder \in IterationOrders(CategoryIDs(categories)) } :
          /\ request' = [op |-> "GetReport", reportType |-> reportType,
                         outcomes |-> outcomes,
                         calls |-> CallsMade(outcomes),
                         err |-> NoError,
                         currentTransactions |-> currentTransactions,
                         prevTransactions |-> prevTransactions,
                         categories |-> categories,
                         startDate |-> w.startDate,
                         endDate |-> w.endDate,
                         prevStartDate |-> pw.prevStartDate,
                         prevEndDate |-> pw.prevEndDate]
          /\ report' = [rep1 EXCEPT
                          !.CategoryData = categoryData,
                          !.Trends = fillTrendAnalytics(rep1, currentTransactions,
                                                        prevTransactions)]
    /\ UNCHANGED <<now, transactions, categories, input, output>>

\* GetMonthlyReport(ctx, userID): the report of the calendar month of now
\* against the month before; the display strings Period and Text are left out
GetMonthlyReport(outcomes) ==
    /\ request = Null
    /\ IF FirstError(outcomes) # 0
       THEN /\ request' = Failed("GetMonthlyReport failed", "MonthlyReport", outcomes,
                                 MonthlyReportErrors)
            /\ report' = NoReport
       ELSE
       \E currentStart \in { Date(Year(now), Month(now), 1, 0, 0) } :
       \E currentEnd \in { Date(Year(now), Month(now) + 1, 1, 0, 0) - TicksPerSec } :
       \E prevStart \in { Date(Year(now), Month(now) - 1, 1, 0, 0) } :
       \E prevEnd \in { currentStart - TicksPerSec } :
       \E currentTransactions \in { GetTransactions(transactions, currentStart, currentEnd) } :
       \E prevTransactions \in { GetTransactions(transactions, prevStart, prevEnd) } :
       \E categoryNames \in
             { [id \in CategoryIDs(categories) |-> CategoryRow(categories, id).Name] } :
       \E currentPeriod \in
             { analyzePeriod(currentTransactions, currentStart, currentEnd, categoryNames) } :
       \E prevPeriod \in
             { analyzePeriod(prevTransactions, prevStart, prevEnd, categoryNames) } :
       \E trends \in { calculateTrends(currentTransactions) } :
       \E expenses \in
             { formatCategoryStats(currentPeriod.ExpensesByCategory,
                                   prevPeriod.ExpensesByCategory, order) :
                 order \in IterationOrders(DOMAIN currentPeriod.ExpensesByCategory) } :
       \E income \in
             { formatCategoryStats(currentPeriod.IncomeByCategory,
                                   prevPeriod.IncomeByCategory, order) :
                 order \in IterationOrders(DOMAIN currentPeriod.IncomeByCategory) } :
          /\ request' = [op |-> "GetMonthlyReport", reportType |-> "MonthlyReport",
                         outcomes |-> outcomes,
                         calls |-> CallsMade(outcomes),
                         err |-> NoError,
                         currentTransactions |-> currentTransactions,
                         prevTransactions |-> prevTransactions,
                         categories |-> categories,
                         startDate |-> currentStart,
                         endDate |-> currentEnd,
                         prevStartDate |-> prevStart,
                         prevEndDate |-> prevEnd]
          /\ report' = [ZeroReport EXCEPT
                          !.CategoryData.Expenses = expenses,
                          !.CategoryData.Income = income,
                          !.Trends.ExpenseTrend = trends.expenseTrend,
                          !.Trends.IncomeTrend = trends.incomeTrend,
                          !.Trends.PeriodComparison.PrevPeriod = prevPeriod,
                          !.Trends.PeriodComparison.CurrentPeriod = currentPeriod]
    /\ UNCHANGED <<now, transactions, categories, input, output>>

\* the handler has sent the report, or the message of the error, and returns
Respond ==
    /\ request # Null
    /\ request' = Null
    /\ report' = NoReport
    /\ UNCHANGED <<now, transactions, categories, input, output>>

Next ==
    \/ ClockAdvance
    \/ CreateCategory
    \/ \E c \in CategoryIDs(categories), a \in Amounts : AddTransaction(c, a)
    \/ \E k \in ReportTypes, outcomes \in RepositoryOutcomes : GetReport(k, outcomes)
    \/ \E outcomes \in RepositoryOutcomes : GetMonthlyReport(outcomes)
    \/ Respond

Spec == Init /\ [][Next]_vars

-----------------------------------------------------------------------------
(* calculateTrendPercent applied to every pair of inputs                   *)

FunctionInit ==
    /\ now = StartNow
    /\ transactions = << >>
    /\ categories = << >>
    /\ request = Null
    /\ report = NoReport
    /\ output = Null

InitTrend ==
    /\ FunctionInit
    /\ input \in [current : Floats, previous : Floats]

CallTrendPercent ==
    /\ output = Null
    /\ output' = calculateTrendPercent(input.current, input.previous)
    /\ UNCHANGED <<now, transactions, categories, request, report, input>>

NextTrend == CallTrendPercent

SpecTrend == InitTrend /\ [][NextTrend]_vars

-----------------------------------------------------------------------------
(* The windows of GetReport for every kind of report and every instant     *)

\* every instant of the years of the calendar
Instants == Date(FirstYear, 1, 1, 0, 0) .. (Date(FirstYear + Cardinality(Years), 1, 1, 0, 0) - 1)

InitPeriod ==
    /\ now \in Instants
    /\ transactions = << >>
    /\ categories = << >>
    /\ request = Null
    /\ report = NoReport
    /\ input \in [reportType : ReportTypes]
    /\ output = Null

\* lines 478-500 and 513-517 of GetReport: the two windows it queries
CallReportWindow ==
    /\ output = Null
    /\ \E w \in { ReportWindow(input.reportType, now) } :
       \E pw \in { PrevWindow(w.startDate, w.endDate) } :
          output' = [startDate |-> w.startDate, endDate |-> w.endDate,
                     prevStartDate |-> pw.prevStartDate, prevEndDate |-> pw.prevEndDate]
    /\ UNCHANGED <<now, transactions, categories, request, report, input>>

NextPeriod == CallReportWindow

SpecPeriod == InitPeriod /\ [][NextPeriod]_vars

-----------------------------------------------------------------------------
(* The three fill functions applied to every list of transactions          *)

\* the dates around the bounds of the two windows of a report
BoundaryDates(startDate, endDate) ==
    { PrevWindow(startDate, endDate).prevStartDate - 1,
      PrevWindow(startDate, endDate).prevStartDate,
      PrevWindow(startDate, endDate).prevEndDate,
      startDate, endDate, endDate + 1 }

SuppliedAmounts == {-100, 1000}

\* the lists of at most MaxSupplied transactions a caller may pass
SuppliedLists(startDate, endDate) ==
    UNION { [1..n -> [CategoryID : CategoryIDs(UserCategories),
                      Amount : SuppliedAmounts,
                      Date : BoundaryDates(startDate, endDate)]] : n \in 0..MaxSupplied }

InitFill ==
    /\ now = StartNow
    /\ transactions = << >>
    /\ categories = UserCategories
    /\ request = Null
    /\ report = NoReport
    /\ input \in UNION { [reportType : {k},
                          supplied : SuppliedLists(ReportWindow(k, StartNow).startDate,
                                                   ReportWindow(k, StartNow).endDate)] :
                           k \in ReportTypes }
    /\ output = Null

\* lines 533-545 of GetReport, the list input.supplied being passed both as
\* currentTransactions and as prevTransactions
CallFill ==
    /\ request = Null
    /\ \E w \in { ReportWindow(input.reportType, now) } :
       \E pw \in { PrevWindow(w.startDate, w.endDate) } :
       \E rep1 \in { fillTransactionStats(
                         [ZeroReport EXCEPT !.StartDate = w.startDate, !.EndDate = w.endDate],
                         input.supplied) } :
       \E categoryData \in
             { fillCategoryAnalytics(rep1, input.supplied, input.supplied,
                                     categories, listOrder, changesOrder) :
                 listOrder \in IterationOrders(CategoryIDs(categories)),
                 changesOrder \in IterationOrders(CategoryIDs(categories)) } :
          /\ request' = [op |-> "fill", reportType |-> input.reportType,
                         currentTransactions |-> input.supplied,
                         prevTransactions |-> input.supplied,
                         categories |-> categories,
                         startDate |-> w.startDate,
                         endDate |-> w.endDate,
                         prevStartDate |-> pw.prevStartDate,
                         prevEndDate |-> pw.prevEndDate]
          /\ report' = [rep1 EXCEPT
                          !.CategoryData = categoryData,
                          !.Trends = fillTrendAnalytics(rep1, input.supplied, input.supplied)]
    /\ UNCHANGED <<now, transactions, categories, input, output>>

NextFill == CallFill

SpecFill == InitFill /\ [][NextFill]_vars

-----------------------------------------------------------------------------
(* The fill functions applied to lists of up to three transactions dated   *)
(* on the first two days of the window or after its end                    *)

MaxListed == 3
ListedAmounts == {-400, -100, 1000}

ListedDates(startDate, endDate) == {startDate, startDate + TicksPerDay, endDate + 1}

ListedLists(startDate, endDate) ==
    UNION { [1..n -> [CategoryID : CategoryIDs(UserCategories),
                      Amount : ListedAmounts,
                      Date : ListedDates(startDate, endDate)]] : n \in 0..MaxListed }

InitCategories ==
    /\ now = StartNow
    /\ transactions = << >>
    /\ categories = UserCategories
    /\ request = Null
    /\ report = NoReport
    /\ input \in UNION { [reportType : {k},
                          supplied : ListedLists(ReportWindow(k, StartNow).startDate,
                                                 ReportWindow(k, StartNow).endDate)] :
                           k \in {"WeeklyReport", "MonthlyReport"} }
    /\ output = Null

SpecCategories == InitCategories /\ [][NextFill]_vars

-----------------------------------------------------------------------------
(* Properties of calculateTrendPercent (specification SpecTrend)           *)

Called == output # Null

\* C1: calculateTrendPercent never divides by zero and returns a finite number
\* for every pair of finite inputs, current = 0 with previous # 0 included.
\* The inputs of SpecTrend are all finite.
TrendPercentFinite == Called => IsFinite(output)

\* C6: with previous = 0 the result is 100 when current > 0 and 0 when
\* current <= 0: (0, 0) gives 0, (5, 0) gives 100, (-5, 0) gives 0.
ZeroBaseline ==
    (Called /\ input.previous.n = 0)
        => output = (IF input.current.n > 0 THEN Num(100) ELSE Num(0))

ZeroBaselineGrowth ==
    Called /\ input.current = Num(5) /\ input.previous = Num(0) /\ output = Num(100)

\* C7: for a nonzero previous and a current of the strictly opposite sign the
\* result is exactly -100 whatever the magnitudes, as for (-3, 5) and (3, -5).
OppositeSigns ==
    (Called /\ input.current.n * input.previous.n < 0) => output = Num(-100)

OppositeSignsReached ==
    Called /\ input.current = Num(-3) /\ input.previous = Num(5) /\ output = Num(-100)

\* C8: for current and previous nonzero and of the same sign the result is
\* -((|previous| - |current|) / |current|) * 100 when |current| < |previous|
\* and ((|current| - |previous|) / |previous|) * 100 otherwise, so that equal
\* arguments give 0.  With current = a/b and previous = e/f the two quotients
\* are (|e|b - |a|f) / (|a|f) and (|a|f - |e|b) / (|e|b); the equations are
\* stated multiplied out.
SameSignMagnitudes ==
    LET a == Abs(input.current.n)
        b == input.current.d
        e == Abs(input.previous.n)
        f == input.previous.d
    IN  (Called /\ input.current.n * input.previous.n > 0)
            => /\ IsFinite(output)
               /\ a * f < e * b
                    => output.n * (a * f) = -100 * (e * b - a * f) * output.d
               /\ a * f >= e * b
                    => output.n * (e * b) = 100 * (a * f - e * b) * output.d
               /\ input.current = input.previous => output = Num(0)

SameSignDecrease ==
    Called /\ input.current = Num(2) /\ input.previous = Num(5) /\ output = Num(-150)

-----------------------------------------------------------------------------
(* Properties of the windows (specification SpecPeriod)                    *)

\* C3: for every report kind and every now, the previous window has exactly
\* the duration of the current one (prevEnd - prevStart = end - start) and
\* ends immediately before the current start, so that the windows are
\* disjoint and no instant between prevStart and end is outside both.
PrevWindowSameDuration ==
    Called => /\ output.prevEndDate - output.prevStartDate
                    = output.endDate - output.startDate
              /\ output.prevEndDate + 1 = output.startDate
              /\ output.prevStartDate <= output.prevEndDate
              /\ output.startDate <= output.endDate

-----------------------------------------------------------------------------
(* Properties of the reports (specification Spec)                          *)

Built == request.op = "GetReport"
Comparison == report.Trends.PeriodComparison

\* C2: when the previous period's expense total is 0 and the current one is
\* positive, the report of GetReport stores ExpenseChange = 100; likewise
\* IncomeChange = 100 when previous income is 0 and current income positive.
GrowthFromNothing ==
    Built => /\ (Comparison.PrevPeriod.TotalExpenses = 0
                    /\ Comparison.CurrentPeriod.TotalExpenses > 0)
                  => Comparison.ExpenseChange = Num(100)
             /\ (Comparison.PrevPeriod.TotalIncome = 0
                    /\ Comparison.CurrentPeriod.TotalIncome > 0)
                  => Comparison.IncomeChange = Num(100)

\* the sum of |Amount| and of Amount over a list of CategoryStats
RECURSIVE AbsAmountSum(_)
AbsAmountSum(list) ==
    IF list = << >> THEN 0 ELSE Abs(Head(list).Amount) + AbsAmountSum(Tail(list))
RECURSIVE AmountSum(_)
AmountSum(list) ==
    IF list = << >> THEN 0 ELSE Head(list).Amount + AmountSum(Tail(list))

\* C4: in every report of GetReport the absolute amounts of the categories of
\* CategoryData.Expenses sum to TotalExpenses and the amounts of the
\* categories of CategoryData.Income sum to TotalIncome.
CategorySumsAreTotals ==
    Built => /\ AbsAmountSum(report.CategoryData.Expenses) = report.TotalExpenses
             /\ AmountSum(report.CategoryData.Income) = report.TotalIncome

\* C5: in every report of GetReport ExpenseChange, IncomeChange and
\* BalanceChange lie in [-100, 200], and where the previous value is nonzero
\* the stored change is min(200, max(-100, calculateTrendPercent(current,
\* previous))), so that previous 1000 and current 4000 store 200.
ChangesClamped ==
    LET stored(current, previous) ==
            FMin(Num(200), FMax(Num(-100),
                                calculateTrendPercent(Num(current), Num(previous))))
        within(change) == FLe(Num(-100), change) /\ FLe(change, Num(200))
        cur == Comparison.CurrentPeriod
        prev == Comparison.PrevPeriod
    IN  Built =>
          /\ within(Comparison.ExpenseChange)
          /\ within(Comparison.IncomeChange)
          /\ within(Comparison.BalanceChange)
          /\ prev.TotalExpenses # 0
               => Comparison.ExpenseChange = stored(cur.TotalExpenses, prev.TotalExpenses)
          /\ prev.TotalIncome # 0
               => Comparison.IncomeChange = stored(cur.TotalIncome, prev.TotalIncome)
          /\ prev.Balance # 0
               => Comparison.BalanceChange = stored(cur.Balance, prev.Balance)

ClampedAtUpperBound ==
    /\ Built
    /\ Comparison.PrevPeriod.TotalIncome = 1000
    /\ Comparison.CurrentPeriod.TotalIncome = 4000
    /\ Comparison.IncomeChange = Num(200)

\* C9: for every set of transactions Balance = TotalIncome - TotalExpenses
\* exactly, in the report, in PeriodComparison.CurrentPeriod and PrevPeriod,
\* and in the PeriodStats of analyzePeriod (the two periods of the report of
\* GetMonthlyReport).
BalanceIsDifference ==
    report # NoReport =>
        \A stats \in {report, Comparison.CurrentPeriod, Comparison.PrevPeriod} :
            stats.Balance = stats.TotalIncome - stats.TotalExpenses

BalanceOfMixedPeriods ==
    /\ Built
    /\ report.TotalIncome = 1000 /\ report.TotalExpenses = 100 /\ report.Balance = 900
    /\ Comparison.CurrentPeriod.TotalExpenses = 100
    /\ Comparison.CurrentPeriod.Balance = 900

-----------------------------------------------------------------------------
(* Properties of the fill functions (specification SpecFill)               *)

\* the transactions of a list dated from `from` to `to`, both included
Dated(txns, from, to) == SelectSeq(txns, LAMBDA t : from <= t.Date /\ t.Date <= to)
Positive(txns) == SelectSeq(txns, LAMBDA t : t.Amount > 0)
NonPositive(txns) == SelectSeq(txns, LAMBDA t : t.Amount <= 0)
Largest(S) == CHOOSE x \in S : \A y \in S : y <= x

\* C10: every total, count, maximum, category sum and period-comparison total
\* counts exactly the transactions of the supplied list dated within
\* [StartDate, EndDate], bounds included (the previous-period figures those
\* within the previous window); a transaction dated outside the window
\* changes none of them even when it is passed in.
OnlyWindowCounted ==
    LET inWindow == Dated(request.currentTransactions, report.StartDate, report.EndDate)
        inPrev == Dated(request.prevTransactions, request.prevStartDate,
                        request.prevEndDate)
        income(txns) == SumSeq(AmountsOf(Positive(txns)))
        expense(txns) == -SumSeq(AmountsOf(NonPositive(txns)))
        listed == report.CategoryData.Expenses \o report.CategoryData.Income
    IN  request.op = "fill" =>
          /\ report.TotalIncome = income(inWindow)
          /\ report.TotalExpenses = expense(inWindow)
          /\ report.TransactionData.TotalCount = Len(inWindow)
          /\ report.TransactionData.IncomeCount = Len(Positive(inWindow))
          /\ report.TransactionData.ExpenseCount = Len(NonPositive(inWindow))
          /\ report.TransactionData.MaxIncome.Amount
                = Largest({0} \cup { inWindow[i].Amount : i \in 1..Len(inWindow) })
          /\ report.TransactionData.MaxExpense.Amount
                = Largest({0} \cup { -inWindow[i].Amount : i \in 1..Len(inWindow) })
          /\ { listed[i].CategoryID : i \in 1..Len(listed) }
                = { inWindow[i].CategoryID : i \in 1..Len(inWindow) }
          /\ \A i \in 1..Len(listed) :
                /\ listed[i].Amount
                      = SumSeq(AmountsOf(OfCategory(inWindow, listed[i].CategoryID)))
                /\ listed[i].Count = Len(OfCategory(inWindow, listed[i].CategoryID))
          /\ Comparison.CurrentPeriod.TotalIncome = income(inWindow)
          /\ Comparison.CurrentPeriod.TotalExpenses = expense(inWindow)
          /\ Comparison.PrevPeriod.TotalIncome = income(inPrev)
          /\ Comparison.PrevPeriod.TotalExpenses = expense(inPrev)

OutsiderPassedIn ==
    /\ request.op = "fill"
    /\ Len(request.currentTransactions) = 2
    /\ request.currentTransactions[1].Date = report.EndDate + 1
    /\ request.currentTransactions[2].Date = report.EndDate
    /\ report.TransactionData.TotalCount = 1
    /\ report.TotalIncome = 1000

-----------------------------------------------------------------------------
(* Properties of the category analytics (specification Spec)               *)

Changes == report.CategoryData.Changes

\* the signed sum of a category over the transactions of each window
CurrentAmount(id) ==
    SumSeq(AmountsOf(OfCategory(
        Dated(request.currentTransactions, request.startDate, request.endDate), id)))
PreviousAmount(id) ==
    SumSeq(AmountsOf(OfCategory(
        Dated(request.prevTransactions, request.prevStartDate, request.prevEndDate), id)))
PercentChange(id) ==
    calculateTrendPercent(Num(CurrentAmount(id)), Num(PreviousAmount(id)))

\* the categories of one type whose previous-period amount is nonzero
Compared(type) ==
    { id \in CategoryIDs(request.categories) :
        CategoryRow(request.categories, id).Type = type /\ PreviousAmount(id) # 0 }

\* C11: among the expense (resp. income) categories with a nonzero
\* previous-period amount, the fastest-growing record is the category with
\* the greatest and the largest-drop record the one with the least signed
\* percent change of (current amount, previous amount), ChangePercent being
\* that value; a category whose amount grew in magnitude is no largest drop.
CategoryChangesSelected ==
    LET selected(record, S, best(_, _)) ==
            /\ record.CategoryID \in S
            /\ \A id \in S : best(PercentChange(record.CategoryID), PercentChange(id))
            /\ record.ChangePercent = PercentChange(record.CategoryID)
        noGrowth(record) ==
            record.CategoryID \in CategoryIDs(request.categories)
                => Abs(CurrentAmount(record.CategoryID))
                       <= Abs(PreviousAmount(record.CategoryID))
        atLeast(a, b) == FLe(b, a)
        atMost(a, b) == FLe(a, b)
    IN  Built =>
          /\ Compared("expense") # {}
               => /\ selected(Changes.FastestGrowingExpense, Compared("expense"), atLeast)
                  /\ selected(Changes.LargestDropExpense, Compared("expense"), atMost)
          /\ Compared("income") # {}
               => /\ selected(Changes.FastestGrowingIncome, Compared("income"), atLeast)
                  /\ selected(Changes.LargestDropIncome, Compared("income"), atMost)
          /\ noGrowth(Changes.LargestDropExpense)
          /\ noGrowth(Changes.LargestDropIncome)

\* the categories listed in the report
Listed == report.CategoryData.Expenses \o report.CategoryData.Income

\* C12: for every category listed in CategoryData.Expenses or
\* CategoryData.Income, TrendPercent = calculateTrendPercent(amount in the
\* current window, amount of the same category in the previous window), for
\* every previous amount, 0 included.
TrendPercentOfListed ==
    Built => \A i \in 1..Len(Listed) :
                Listed[i].TrendPercent = PercentChange(Listed[i].CategoryID)

-----------------------------------------------------------------------------
(* Properties of the averages and the trend series (specification Spec)    *)

\* C13: the daily averages of PeriodComparison.CurrentPeriod and PrevPeriod
\* are the period's totals divided by the inclusive day count of
\* fillTransactionStats, (EndDate - StartDate) in days + 1, so that in every
\* report CurrentPeriod.DailyAvgIncome = TransactionData.DailyAvgIncome and
\* CurrentPeriod.DailyAvgExpense = TransactionData.DailyAvgExpense.
DailyAveragesAgree ==
    LET inclusiveDays == FAdd(DaysBetween(report.StartDate, report.EndDate), Num(1))
        averaged(period) ==
            /\ period.DailyAvgIncome = FDiv(Num(period.TotalIncome), inclusiveDays)
            /\ period.DailyAvgExpense = FDiv(Num(period.TotalExpenses), inclusiveDays)
    IN  Built =>
          /\ averaged(Comparison.CurrentPeriod)
          /\ averaged(Comparison.PrevPeriod)
          /\ Comparison.CurrentPeriod.DailyAvgIncome = report.TransactionData.DailyAvgIncome
          /\ Comparison.CurrentPeriod.DailyAvgExpense = report.TransactionData.DailyAvgExpense

-----------------------------------------------------------------------------
(* Properties of the weekly window (specification SpecPeriod)              *)

\* C14: for a weekly report the current window runs from 7 days before now
\* to now: its end minus its start is 7 days, and its trend series, one point
\* per date from its start, covers no calendar day earlier than now - 7 days.
WeeklyWindowSevenDays ==
    LET dates == TrendDates(output.startDate, output.endDate)
    IN  (Called /\ input.reportType = "WeeklyReport") =>
          /\ output.startDate = now - 7 * TicksPerDay
          /\ output.endDate = now
          /\ output.endDate - output.startDate = 7 * TicksPerDay
          /\ \A j \in 1..Len(dates) :
                DayNumber(dates[j]) >= DayNumber(now - 7 * TicksPerDay)

-----------------------------------------------------------------------------
(* Properties of the trend series (specification Spec)                     *)

IncomeTrend == report.Trends.IncomeTrend
ExpenseTrend == report.Trends.ExpenseTrend

\* the transactions the report was given that are dated on the day of date
OnDayOf(date) ==
    SelectSeq(request.currentTransactions, LAMBDA t : DayNumber(t.Date) = DayNumber(date))

\* C15: the income and the expense trend series of a report of GetReport
\* each hold exactly one TrendPoint per calendar day from the day of
\* StartDate to the day of EndDate, in ascending order: both have length
\* (day of EndDate - day of StartDate) + 1, and the point of a day without
\* transactions is present with amount 0.
TrendSeriesPerDay ==
    LET n == DayNumber(report.EndDate) - DayNumber(report.StartDate) + 1
    IN  Built =>
          /\ Len(IncomeTrend) = n
          /\ Len(ExpenseTrend) = n
          /\ \A j \in 1..n :
                /\ DayNumber(IncomeTrend[j].Date) = DayNumber(report.StartDate) + j - 1
                /\ ExpenseTrend[j].Date = IncomeTrend[j].Date
                /\ OnDayOf(IncomeTrend[j].Date) = << >>
                     => IncomeTrend[j].Amount = 0 /\ ExpenseTrend[j].Amount = 0

WeekWithIdleDays ==
    /\ Built
    /\ request.reportType = "WeeklyReport"
    /\ Len(IncomeTrend) = 8
    /\ Len(ExpenseTrend) = 8
    /\ IncomeTrend[1].Amount = 0
    /\ IncomeTrend[8].Amount = 1000
    /\ OnDayOf(IncomeTrend[1].Date) = << >>

-----------------------------------------------------------------------------
(* Properties of the totals and counts (specification Spec)                *)

\* the transactions of the current window the report was given
InWindow == Dated(request.currentTransactions, report.StartDate, report.EndDate)
NonZero(txns) == SelectSeq(txns, LAMBDA t : t.Amount # 0)
AbsSum(txns) == SumSeq([i \in 1..Len(txns) |-> Abs(txns[i].Amount)])

\* C16: each in-window transaction is classified by its own sign, whatever
\* the type of its category: the amounts > 0 make TotalIncome and
\* IncomeCount, the amounts <= 0 make, by their absolute values, TotalExpenses
\* and ExpenseCount; the zero amounts change neither TotalIncome nor
\* TotalExpenses nor Balance.
ClassifiedBySign ==
    Built =>
      /\ report.TotalIncome = SumSeq(AmountsOf(Positive(InWindow)))
      /\ report.TransactionData.IncomeCount = Len(Positive(InWindow))
      /\ report.TotalExpenses = AbsSum(NonPositive(InWindow))
      /\ report.TransactionData.ExpenseCount = Len(NonPositive(InWindow))
      /\ report.TotalIncome = SumSeq(AmountsOf(Positive(NonZero(InWindow))))
      /\ report.TotalExpenses = AbsSum(NonPositive(NonZero(InWindow)))
      /\ report.Balance = SumSeq(AmountsOf(NonZero(InWindow)))

IncomeInExpenseCategory ==
    /\ Built
    /\ Len(InWindow) = 2
    /\ InWindow[1].CategoryID = "c1" /\ InWindow[1].Amount = 1000
    /\ InWindow[2].CategoryID = "c2" /\ InWindow[2].Amount = 0
    /\ CategoryRow(request.categories, "c1").Type = "expense"
    /\ report.TotalIncome = 1000 /\ report.TransactionData.IncomeCount = 1
    /\ report.TotalExpenses = 0 /\ report.TransactionData.ExpenseCount = 1
    /\ report.Balance = 1000

-----------------------------------------------------------------------------
(* Properties of the category list (specification SpecCategories)          *)

Filled == request.op = "fill"

\* the in-window transactions that carry category id
Carrying(id) == SelectSeq(InWindow, LAMBDA t : t.CategoryID = id)

\* +1000 Salary on day 1, -400 Food on day 1, -100 Food on day 2
SalaryAndFood ==
    << [CategoryID |-> "c2", Amount |-> 1000, Date |-> report.StartDate],
       [CategoryID |-> "c1", Amount |-> -400, Date |-> report.StartDate],
       [CategoryID |-> "c1", Amount |-> -100, Date |-> report.StartDate + TicksPerDay] >>

\* C17: for each category of the category list the Amount reported is the
\* signed sum and Count the number of the in-window transactions carrying
\* its id, whatever their signs (a category is listed exactly when it has
\* one); for +1000 Salary on day 1, -400 Food on day 1 and -100 Food on
\* day 2 the report has TotalIncome 1000, TotalExpenses 500, Balance 500
\* and Food has Amount -500 and Share 100.
CategoryAmountIsSignedSum ==
    Filled =>
      /\ \A id \in CategoryIDs(request.categories) :
            /\ Carrying(id) # << >> <=> \E i \in 1..Len(Listed) : Listed[i].CategoryID = id
            /\ \A i \in 1..Len(Listed) :
                  Listed[i].CategoryID = id
                     => /\ Listed[i].Amount = SumSeq(AmountsOf(Carrying(id)))
                        /\ Listed[i].Count = Len(Carrying(id))
      /\ request.currentTransactions = SalaryAndFood
            => /\ report.TotalIncome = 1000
               /\ report.TotalExpenses = 500
               /\ report.Balance = 500
               /\ Len(report.CategoryData.Expenses) = 1
               /\ report.CategoryData.Expenses[1].Name = "Food"
               /\ report.CategoryData.Expenses[1].Amount = -500
               /\ report.CategoryData.Expenses[1].Share = Num(100)

SalaryAndFoodReported ==
    /\ Filled
    /\ request.currentTransactions = SalaryAndFood
    /\ report.TotalExpenses = 500
    /\ report.CategoryData.Expenses[1].Amount = -500
    /\ report.CategoryData.Expenses[1].Count = 2

-----------------------------------------------------------------------------
(* Properties of the shares (specification Spec)                           *)

\* C18: category shares are never computed with a zero denominator.  In the
\* reports of GetReport and of GetMonthlyReport: when the income total used
\* for the shares (the sum of the amounts of the income categories) is 0
\* every income category has Share 0, when the expense total (the sum of
\* their absolute amounts) is 0 every expense category has Share 0, and
\* otherwise the Share of an expense category is |Amount| / total * 100 and
\* that of an income category Amount / total * 100.
SharesGuarded ==
    LET incomeTotal == AmountSum(report.CategoryData.Income)
        expenseTotal == AbsAmountSum(report.CategoryData.Expenses)
        share(amount, total) ==
            IF total = 0 THEN Num(0) ELSE FMul(FDiv(Num(amount), Num(total)), Num(100))
    IN  report # NoReport =>
          /\ \A i \in 1..Len(report.CategoryData.Income) :
                report.CategoryData.Income[i].Share
                   = share(report.CategoryData.Income[i].Amount, incomeTotal)
          /\ \A i \in 1..Len(report.CategoryData.Expenses) :
                report.CategoryData.Expenses[i].Share
                   = share(Abs(report.CategoryData.Expenses[i].Amount), expenseTotal)

-----------------------------------------------------------------------------
(* Properties of the trend points (specification Spec)                     *)

\* the income and the expense of the day of a date, over the transactions of
\* the window
DayIncome(date) == SumSeq(AmountsOf(Positive(OnDayOf(date))))
DayExpense(date) == AbsSum(NonPositive(OnDayOf(date)))

\* total / number of days, 0 for no day
PerDay(total, days) == IF days = {} THEN Num(0) ELSE FDiv(Num(total), Num(Cardinality(days)))

\* C19: the Change of every TrendPoint is calculateTrendPercent(the day's
\* amount of that side, A), A being the window's total of the side divided
\* by the number of days on which the side had a positive amount (0 when
\* there is none), so that idle days do not enter the denominator; an expense
\* TrendPoint stores the day's expense as a non-positive Amount.
TrendPointChange ==
    LET incomeDays == { DayNumber(InWindow[i].Date) :
                          i \in { k \in 1..Len(InWindow) : DayIncome(InWindow[k].Date) > 0 } }
        expenseDays == { DayNumber(InWindow[i].Date) :
                           i \in { k \in 1..Len(InWindow) : DayExpense(InWindow[k].Date) > 0 } }
        avgIncome == PerDay(SumSeq(AmountsOf(Positive(InWindow))), incomeDays)
        avgExpense == PerDay(AbsSum(NonPositive(InWindow)), expenseDays)
    IN  Built =>
          /\ \A j \in 1..Len(IncomeTrend) :
                /\ IncomeTrend[j].Amount = DayIncome(IncomeTrend[j].Date)
                /\ IncomeTrend[j].Change
                      = calculateTrendPercent(Num(DayIncome(IncomeTrend[j].Date)), avgIncome)
          /\ \A j \in 1..Len(ExpenseTrend) :
                /\ ExpenseTrend[j].Amount <= 0
                /\ ExpenseTrend[j].Amount = -DayExpense(ExpenseTrend[j].Date)
                /\ ExpenseTrend[j].Change
                      = calculateTrendPercent(Num(DayExpense(ExpenseTrend[j].Date)), avgExpense)

\* a week with an expense of 100 on its seventh and an income of 1000 on its
\* eighth day: each side has one active day and meets its own average
OneActiveDayEachSide ==
    /\ Built
    /\ Len(IncomeTrend) = 8
    /\ ExpenseTrend[7].Amount = -100 /\ ExpenseTrend[7].Change = Num(0)
    /\ IncomeTrend[7].Amount = 0
    /\ IncomeTrend[8].Amount = 1000 /\ IncomeTrend[8].Change = Num(0)
    /\ ExpenseTrend[8].Amount = 0

-----------------------------------------------------------------------------
(* Properties of the errors of GetReport (specification Spec)              *)

Asked == request.op \in {"GetReport", "GetReport failed"}

\* C20: GetReport returns an error if and only if one of the repository
\* calls it makes (current transactions, previous transactions, categories,
\* in that order) is answered by an error; it then returns no report, its
\* error wraps that of the repository, and it makes no further call; after
\* three answered calls it returns a report, also for empty lists of
\* transactions and of categories.
ErrorIffCallFails ==
    LET made == Len(request.calls)
        failing == { i \in 1..made : request.outcomes[i] = "error" }
    IN  Asked =>
          /\ request.calls = SubSeq(RepositoryCalls, 1, made)
          /\ request.err # NoError <=> failing # {}
          /\ request.err # NoError
               => /\ report = NoReport
                  /\ failing = {made}
                  /\ request.err.wraps = RepositoryError(made)
                  /\ request.err.msg = ReportErrors[made]
          /\ request.err = NoError
               => /\ made = Len(RepositoryCalls)
                  /\ report # NoReport
                  /\ report.StartDate = request.startDate
                  /\ report.EndDate = request.endDate

PreviousPeriodCallFails ==
    /\ request.op = "GetReport failed"
    /\ request.outcomes = <<"ok", "error", "error">>
    /\ request.calls = <<"GetTransactions current", "GetTransactions previous">>
    /\ request.err.msg = "failed to get previous period transactions"
    /\ report = NoReport
    /\ transactions # << >>

-----------------------------------------------------------------------------
(* DailyReportHandler: the daily fan-out over all users                    *)

MaxUserRows == 3
UserIDs == {101, 102, 103}

\* the loop left at the first user whose report fails
AfterFailure_Stop(users, i) == Len(users)

\* `continue`: after a failed GetReport the loop goes on with the next user
AfterFailure(users, i) == i

\* GetAllUsers: the distinct user_id values of the rows, in the order in
\* which `range usersMap` yields them
GetAllUsers(rows) == IterationOrders({ rows[i] : i \in 1..Len(rows) })

\* what the repository answers to the calls of GetReport for a user
OutcomesFor(user, failing) ==
    [i \in 1..Len(RepositoryCalls) |-> IF user \in failing THEN "error" ELSE "ok"]

\* input: the user_id column of table transactions, the users for whom the
\* repository answers with an error, and whether GetAllUsers itself succeeds
InitDaily ==
    /\ now = StartNow
    /\ transactions = << >>
    /\ categories = << >>
    /\ request = Null
    /\ report = NoReport
    /\ input \in [rows : UNION { [1..n -> UserIDs] : n \in 0..MaxUserRows },
                  failing : SUBSET UserIDs,
                  usersErr : BOOLEAN]
    /\ output = Null

\* lines 63-89: the handler starts and asks for the users
DailyReportStart ==
    /\ request = Null
    /\ output = Null
    /\ IF input.usersErr
       THEN /\ request' = [op |-> "DailyReportHandler", users |-> << >>, i |-> 0]
            /\ output' = [sent |-> << >>, StatusCode |-> 500]
       ELSE \E users \in GetAllUsers(input.rows) :
            /\ request' = [op |-> "DailyReportHandler", users |-> users, i |-> 0]
            /\ output' = [sent |-> << >>, StatusCode |-> 0]
    /\ UNCHANGED <<now, transactions, categories, report, input>>

\* lines 92-101: one turn of the loop, for the user after the i handled ones
DailyReportUser ==
    /\ request.op = "DailyReportHandler"
    /\ output.StatusCode = 0
    /\ request.i < Len(request.users)
    /\ \E userID \in { request.users[request.i + 1] } :
          IF FirstError(OutcomesFor(userID, input.failing)) # 0
          THEN /\ request' = [request EXCEPT !.i = AfterFailure(request.users, request.i + 1)]
               /\ UNCHANGED output
          ELSE /\ request' = [request EXCEPT !.i = request.i + 1]
               /\ output' = [output EXCEPT !.sent = Append(output.sent, userID)]
    /\ UNCHANGED <<now, transactions, categories, report, input>>

\* lines 103-109: the loop is over
DailyReportDone ==
    /\ request.op = "DailyReportHandler"
    /\ output.StatusCode = 0
    /\ request.i >= Len(request.users)
    /\ output' = [output EXCEPT !.StatusCode = 200]
    /\ UNCHANGED <<now, transactions, categories, request, report, input>>

NextDaily == DailyReportStart \/ DailyReportUser \/ DailyReportDone

SpecDaily == InitDaily /\ [][NextDaily]_vars

\* the number of calls of SendDailyReport for a user
TimesSent(user) == Cardinality({ k \in 1..Len(output.sent) : output.sent[k] = user })

\* C21: in the daily fan-out every user of the rows is returned by
\* GetAllUsers once; SendDailyReport is called exactly once for a user whose
\* GetReport succeeded and never for another one; and when the handler
\* answers 200 every user has had its turn, whichever users failed before.
FanOutIndependent ==
    request.op = "DailyReportHandler" =>
      /\ \A a, b \in 1..Len(request.users) : request.users[a] = request.users[b] => a = b
      /\ output.StatusCode # 500
           => { request.users[k] : k \in 1..Len(request.users) }
                 = { input.rows[k] : k \in 1..Len(input.rows) }
      /\ \A user \in UserIDs :
            TimesSent(user) =
               (IF \E k \in 1..request.i : request.users[k] = user /\ user \notin input.failing
                THEN 1 ELSE 0)
      /\ output.StatusCode = 200
           => \A k \in 1..Len(request.users) :
                 TimesSent(request.users[k]) = (IF request.users[k] \in input.failing THEN 0 ELSE 1)

SentAfterFailure ==
    /\ request.op = "DailyReportHandler"
    /\ output.StatusCode = 200
    /\ Len(request.users) = 3
    /\ request.users[1] \in input.failing
    /\ request.users[3] \in input.failing
    /\ output.sent = <<request.users[2]>>

-----------------------------------------------------------------------------
(* The aggregations applied twice to one list                              *)

InitAggregate ==
    /\ now = StartNow
    /\ transactions = << >>
    /\ categories = UserCategories
    /\ request = Null
    /\ report = NoReport
    /\ input \in [supplied : SuppliedLists(ReportWindow("MonthlyReport", StartNow).startDate,
                                           ReportWindow("MonthlyReport", StartNow).endDate)]
    /\ output = Null

\* fillTransactionStats, analyzePeriod and calculateTrends are called on the
\* slice input.supplied, and then once more on the same slice and the same
\* report; listAfter is the slice as the first round leaves it
CallAggregate ==
    /\ output = Null
    /\ \E w \in { ReportWindow("MonthlyReport", now) } :
       \E categoryNames \in
             { [id \in CategoryIDs(categories) |-> CategoryRow(categories, id).Name] } :
       \E first \in { fillTransactionStats(
                         [ZeroReport EXCEPT !.StartDate = w.startDate, !.EndDate = w.endDate],
                         input.supplied) } :
       \E listAfter \in { SortedByDate(input.supplied) } :
          output' =
             [listAfter |-> listAfter,
              first |-> [stats |-> first,
                         period |-> analyzePeriod(input.supplied, w.startDate, w.endDate,
                                                  categoryNames),
                         trends |-> calculateTrends(input.supplied)],
              second |-> [stats |-> fillTransactionStats(first, listAfter),
                          period |-> analyzePeriod(listAfter, w.startDate, w.endDate,
                                                   categoryNames),
                          trends |-> calculateTrends(listAfter)]]
    /\ UNCHANGED <<now, transactions, categories, request, report, input>>

NextAggregate == CallAggregate

SpecAggregate == InitAggregate /\ [][NextAggregate]_vars

\* C22: aggregating twice over the same transaction and category lists and
\* the same window yields identical totals, counts, averages, maxima and
\* per-category sums, and leaves the input list unchanged.
AggregationRepeatable ==
    Called => /\ output.second = output.first
              /\ output.listAfter = input.supplied

-----------------------------------------------------------------------------
(* The dialog: callback queries and text messages of one user              *)

MaxUpdates == 3

\* a text is the sequence of its characters
Digits == <<"0", "1", "2", "3", "4", "5", "6", "7", "8", "9">>

IsDigit(c) == \E k \in 1..Len(Digits) : Digits[k] = c

DigitValue(c) == (CHOOSE k \in 1..Len(Digits) : Digits[k] = c) - 1

RECURSIVE DecimalValue(_)
DecimalValue(s) ==
    IF s = << >> THEN 0
    ELSE DecimalValue(SubSeq(s, 1, Len(s) - 1)) * 10 + DigitValue(s[Len(s)])

IsDecimal(s) == s # << >> /\ \A k \in 1..Len(s) : IsDigit(s[k])

\* strconv.ParseFloat(s, 64) on the texts of Texts: an optional sign and
\* decimal digits; anything else in Texts is a syntax error
ParseFloat(s) ==
    IF s # << >> /\ s[1] \in {"+", "-"}
    THEN IF IsDecimal(Tail(s))
         THEN [err |-> FALSE,
               value |-> IF s[1] = "-" THEN 0 - DecimalValue(Tail(s))
                         ELSE DecimalValue(Tail(s))]
         ELSE [err |-> TRUE, value |-> 0]
    ELSE IF IsDecimal(s)
         THEN [err |-> FALSE, value |-> DecimalValue(s)]
         ELSE [err |-> TRUE, value |-> 0]

\* strings.SplitN(s, " ", 2)
SplitN(s) ==
    IF \E k \in 1..Len(s) : s[k] = " "
    THEN LET k == CHOOSE i \in 1..Len(s) :
                     s[i] = " " /\ \A j \in 1..(i - 1) : s[j] # " "
         IN  <<SubSeq(s, 1, k - 1), SubSeq(s, k + 1, Len(s))>>
    ELSE <<s>>

\* what the user types
Texts ==
    { <<"1", "0", "0">>, <<"-", "1", "0", "0">>, <<"2", "5", " ", "t", "e", "a">>,
      <<"t", "e", "a">>, <<"0">> }

\* the ids the database gives to the rows created while handling update n
TransactionIDs == <<"t1", "t2", "t3">>
NewCategoryIDs == <<"n1", "n2", "n3">>

DialogCategories ==
    << [ID |-> "c1", Name |-> <<"F", "o", "o", "d">>, Type |-> "expense"],
       [ID |-> "c2", Name |-> <<"P", "a", "y">>, Type |-> "income"] >>

AllCategoryIDs == {"c1", "c2"} \cup { NewCategoryIDs[k] : k \in 1..MaxUpdates }

\* callback.Data: the cases of the switch of handleCallback, and a datum that
\* matches no case
PlainData ==
    {"action_add_income", "action_add_expense", "action_report", "action_categories",
     "action_transactions", "action_back", "report_daily", "report_weekly",
     "report_monthly", "report_yearly", "unknown"}

CallbackData ==
    { [prefix |-> p, id |-> ""] :
         p \in PlainData \cup {"add_income_category", "add_expense_category",
                               "report_charts"} }
    \cup { [prefix |-> "delete_transaction_", id |-> TransactionIDs[k]] : k \in 1..MaxUpdates }
    \cup { [prefix |-> p, id |-> i] : p \in {"delete_category_", "category_"},
                                      i \in AllCategoryIDs }

\* the call that answers with an error while an update is handled
DialogFailures ==
    {"none", "GetUserState", "SaveUserState", "DeleteUserState", "GetCategories",
     "CreateCategory", "AddTransaction", "DeleteTransaction",
     "DeleteCategory transactions", "DeleteCategory category", "GetReport", "sendCharts"}

\* no row in table user_states
NoState == [none |-> TRUE]

NoMessage == [op |-> "none"]

Without(rows, field, id) == SelectSeq(rows, LAMBDA r : r[field] # id)

\* the type of the category with that id, "" when the loop finds none
TypeOfCategory(cats, id) ==
    IF \E k \in 1..Len(cats) : cats[k].ID = id
    THEN cats[CHOOSE k \in 1..Len(cats) :
                 cats[k].ID = id /\ \A j \in 1..(k - 1) : cats[j].ID # id].Type
    ELSE ""

\* handleCallback(callback), failed being the call that fails: the tables
\* after it, whether it answered the callback query and whether it returned
\* an error
CallbackEffect(data, failed, txns, cats, state) ==
    LET same == [transactions |-> txns, categories |-> cats, state |-> state,
                 answered |-> TRUE, err |-> FALSE]
        awaiting(type) ==
            IF failed = "SaveUserState" THEN same
            ELSE [same EXCEPT !.state = [SelectedCategory |-> "",
                                         TransactionType |-> type,
                                         AwaitingAction |-> "new_category"]]
        returned == [same EXCEPT !.answered = FALSE, !.err = TRUE]
    IN  CASE data.prefix = "add_income_category" -> awaiting("income")
          [] data.prefix = "add_expense_category" -> awaiting("expense")
          [] data.prefix = "delete_transaction_" ->
                IF failed = "DeleteTransaction" THEN returned
                ELSE [same EXCEPT !.transactions = Without(txns, "ID", data.id)]
          [] data.prefix = "delete_category_" ->
                IF failed = "DeleteCategory transactions" THEN returned
                ELSE IF failed = "DeleteCategory category"
                THEN [returned EXCEPT
                         !.transactions = Without(txns, "CategoryID", data.id)]
                ELSE [same EXCEPT
                         !.transactions = Without(txns, "CategoryID", data.id),
                         !.categories = Without(cats, "ID", data.id)]
          [] data.prefix = "category_" ->
                IF failed \in {"GetCategories", "SaveUserState"} THEN returned
                ELSE [same EXCEPT !.state =
                         [SelectedCategory |-> data.id,
                          TransactionType |-> TypeOfCategory(cats, data.id),
                          AwaitingAction |-> ""]]
          [] data.prefix = "report_charts" ->
                IF failed = "GetReport" THEN [same EXCEPT !.answered = FALSE]
                ELSE same
          [] OTHER -> same

\* handleMessage(message) for update n, failed being the call that fails: the
\* tables after it and what it did
MessageEffect(text, failed, n, today, txns, cats, state) ==
    LET same == [transactions |-> txns, categories |-> cats, state |-> state,
                 stored |-> FALSE, created |-> FALSE, menu |-> FALSE, err |-> FALSE]
        amount == ParseFloat(SplitN(text)[1])
    IN  IF failed = "GetUserState" THEN [same EXCEPT !.err = TRUE]
        ELSE IF state = NoState THEN [same EXCEPT !.menu = TRUE]
        ELSE IF state.AwaitingAction = "new_category"
        THEN IF failed = "CreateCategory" THEN same
             ELSE [same EXCEPT
                     !.categories = Append(cats, [ID |-> NewCategoryIDs[n],
                                                  Name |-> text,
                                                  Type |-> state.TransactionType]),
                     !.created = TRUE,
                     !.state = IF failed = "DeleteUserState" THEN state ELSE NoState,
                     !.err = (failed = "DeleteUserState")]
        ELSE IF amount.err THEN same
        ELSE IF failed = "AddTransaction" THEN same
        ELSE [same EXCEPT
                !.transactions =
                    Append(txns, [ID |-> TransactionIDs[n],
                                  CategoryID |-> state.SelectedCategory,
                                  Amount |-> IF state.TransactionType = "expense"
                                             THEN 0 - amount.value ELSE amount.value,
                                  Date |-> today]),
                !.stored = TRUE,
                !.state = IF failed = "DeleteUserState" THEN state ELSE NoState,
                !.err = (failed = "DeleteUserState"),
                !.menu = (failed # "DeleteUserState")]

\* transactions and categories are the user's rows; input is the user's row
\* of table user_states; request is the callback query in flight; output is
\* what handleMessage did with the last text
InitDialog ==
    /\ now = StartNow
    /\ transactions = << >>
    /\ categories = DialogCategories
    /\ request = [op |-> "dialog", update_id |-> 0, callback_id |-> 0,
                  Data |-> [prefix |-> "", id |-> ""],
                  handled |-> TRUE, answered |-> TRUE, err |-> FALSE]
    /\ report = NoReport
    /\ input = NoState
    /\ output = NoMessage

\* a callback query arrives at the webhook
CallbackArrives(data) ==
    /\ request.handled
    /\ request.update_id < MaxUpdates
    /\ request' = [request EXCEPT !.update_id = request.update_id + 1,
                                  !.callback_id = request.update_id + 1,
                                  !.Data = data,
                                  !.handled = FALSE, !.answered = FALSE, !.err = FALSE]
    /\ output' = NoMessage
    /\ UNCHANGED <<now, transactions, categories, report, input>>

handleCallback(failed) ==
    /\ ~request.handled
    /\ \E e \in { CallbackEffect(request.Data, failed, transactions, categories, input) } :
          /\ transactions' = e.transactions
          /\ categories' = e.categories
          /\ input' = e.state
          /\ request' = [request EXCEPT !.handled = TRUE, !.answered = e.answered,
                                        !.err = e.err]
    /\ UNCHANGED <<now, report, output>>

\* a text message that is not a command arrives and is handled
handleMessage(text, failed) ==
    /\ request.update_id < MaxUpdates
    /\ \E e \in { MessageEffect(text, failed, request.update_id + 1,
                                Date(Year(now), Month(now), Day(now), 0, 0),
                                transactions, categories, input) } :
          /\ transactions' = e.transactions
          /\ categories' = e.categories
          /\ input' = e.state
          /\ output' = [op |-> "handleMessage", text |-> text, failed |-> failed,
                        stateBefore |-> input, stateAfter |-> e.state,
                        stored |-> e.stored, created |-> e.created,
                        menu |-> e.menu, err |-> e.err,
                        afterCompleted |-> /\ output.op = "handleMessage"
                                           /\ (output.stored \/ output.created)]
    /\ request' = [request EXCEPT !.update_id = request.update_id + 1]
    /\ UNCHANGED <<now, report>>

NextDialog ==
    \/ \E data \in CallbackData : CallbackArrives(data)
    \/ \E failed \in DialogFailures : handleCallback(failed)
    \/ \E text \in Texts, failed \in DialogFailures : handleMessage(text, failed)

SpecDialog == InitDialog /\ [][NextDialog]_vars

\* C23: after handleMessage stores a transaction or creates a category the
\* user's state is deleted, and the user's next text message creates nothing
\* and only shows the main menu; when the amount cannot be parsed or the
\* service call fails the state is kept unchanged.
DialogStateReset ==
    output.op = "handleMessage" =>
      /\ (output.stored \/ output.created) => output.stateAfter = NoState
      /\ output.afterCompleted => ~output.stored /\ ~output.created /\ output.menu
      /\ (~output.stored /\ ~output.created) => output.stateAfter = output.stateBefore

\* C27: every transaction stored through the dialog has a sign that agrees
\* with the kind of its category: amount <= 0 for an expense category and
\* amount >= 0 for an income category, whatever number the user types.
SignAgreesWithKind ==
    \A k \in 1..Len(transactions) :
       /\ TypeOfCategory(categories, transactions[k].CategoryID) = "expense"
             => transactions[k].Amount <= 0
       /\ TypeOfCategory(categories, transactions[k].CategoryID) = "income"
             => transactions[k].Amount >= 0

\* handleUpdate calls handleCallback for every callback query it receives,
\* and the handler runs to its return
SpecCallback ==
    InitDialog /\ [][NextDialog]_vars
               /\ WF_vars(\E failed \in DialogFailures : handleCallback(failed))

\* C28: every callback query handled by handleCallback is eventually
\* answered with a callback response, on every branch.
CallbackAnswered ==
    \A n \in 1..MaxUpdates :
       (request.callback_id = n /\ ~request.handled)
          ~> (request.callback_id = n /\ request.answered)

-----------------------------------------------------------------------------
(* The first day of the previous window                                    *)

\* midnight of the day on which the previous window begins
PrevFirstMidnight ==
    Date(Year(request.prevStartDate), Month(request.prevStartDate),
         Day(request.prevStartDate), 0, 0)

\* the user's transactions dated at that midnight
AtFirstMidnight == SelectSeq(transactions, LAMBDA t : t.Date = PrevFirstMidnight)

\* C24: a transaction dated exactly at midnight of the first day of the
\* previous window is counted in the previous-period totals of the report.
FirstMidnightCounted ==
    Built => /\ Comparison.PrevPeriod.TotalIncome >= IncomeOf(AtFirstMidnight)
             /\ Comparison.PrevPeriod.TotalExpenses >= ExpenseOf(AtFirstMidnight)

-----------------------------------------------------------------------------
(* CreateDefaultCategories called by concurrent /start updates             *)

MaxCalls == 2

\* defaultCategories
DefaultCategories ==
    << [Name |-> "Produkty", Type |-> "expense"],
       [Name |-> "Transport", Type |-> "expense"],
       [Name |-> "Razvlecheniya", Type |-> "expense"],
       [Name |-> "Zarplata", Type |-> "income"] >>

\* the id the database gives to the k-th row inserted by call p
DefaultID(p, k) == <<p, k>>

\* the user's rows of table categories before the calls: none, or one
InitialCategories ==
    { << >>, <<[ID |-> <<0, 1>>, Name |-> "Produkty", Type |-> "expense"]>> }

\* each WebhookHandler invocation is a process of its own; request[p] is the
\* position of call p: before GetCategories, in the loop after i inserts, or
\* returned
InitDefaults ==
    /\ now = StartNow
    /\ transactions = << >>
    /\ categories \in InitialCategories
    /\ request = [p \in 1..MaxCalls |->
                     [pc |-> "start", existing |-> 0, i |-> 0, err |-> FALSE]]
    /\ report = NoReport
    /\ input = [initial |-> categories]
    /\ output = Null

\* lines 158-167: the call reads the user's categories and returns when the
\* read fails or finds one
GetExistingCategories(p, outcome) ==
    /\ request[p].pc = "start"
    /\ request' = [request EXCEPT ![p] =
          IF outcome = "error"
          THEN [@ EXCEPT !.pc = "done", !.err = TRUE]
          ELSE IF Len(categories) > 0
          THEN [@ EXCEPT !.pc = "done", !.existing = Len(categories)]
          ELSE [@ EXCEPT !.pc = "create"]]
    /\ UNCHANGED <<now, transactions, categories, report, input, output>>

\* lines 197-203: one turn of the loop over defaultCategories
CreateDefaultCategory(p, outcome) ==
    /\ request[p].pc = "create"
    /\ IF outcome = "error"
       THEN /\ request' = [request EXCEPT ![p] = [@ EXCEPT !.pc = "done", !.err = TRUE]]
            /\ UNCHANGED categories
       ELSE /\ categories' =
                  Append(categories,
                         [ID |-> DefaultID(p, request[p].i + 1),
                          Name |-> DefaultCategories[request[p].i + 1].Name,
                          Type |-> DefaultCategories[request[p].i + 1].Type])
            /\ request' = [request EXCEPT ![p] =
                  [@ EXCEPT !.i = @ + 1,
                            !.pc = IF request[p].i + 1 = Len(DefaultCategories)
                                   THEN "done" ELSE "create"]]
    /\ UNCHANGED <<now, transactions, report, input, output>>

NextDefaults ==
    \E p \in 1..MaxCalls, outcome \in {"ok", "error"} :
       \/ GetExistingCategories(p, outcome)
       \/ CreateDefaultCategory(p, outcome)

SpecDefaults == InitDefaults /\ [][NextDefaults]_vars

\* the number of the user's categories with a name
Named(name) == Cardinality({ k \in 1..Len(categories) : categories[k].Name = name })

\* C25: for any interleaving of the calls of CreateDefaultCategories for a
\* user who starts without categories the user ends with exactly the four
\* default categories, each once; and a call made when the user already has
\* a category creates nothing.
DefaultsCreatedOnce ==
    /\ (/\ input.initial = << >>
        /\ \A p \in 1..MaxCalls : request[p].pc = "done" /\ ~request[p].err)
          => /\ Len(categories) = Len(DefaultCategories)
             /\ \A k \in 1..Len(DefaultCategories) : Named(DefaultCategories[k].Name) = 1
    /\ \A p \in 1..MaxCalls : request[p].existing > 0 => request[p].i = 0

-----------------------------------------------------------------------------
(* The kind of the categories recorded in CategoryChanges                  *)

\* a CategoryChange record names no category or one of the given type
OfKind(change, type) ==
    change.CategoryID # ZeroCategoryChange.CategoryID
       => CategoryRow(request.categories, change.CategoryID).Type = type

\* C26: the category recorded as FastestGrowingExpense or LargestDropExpense
\* is an expense category, and the one recorded as FastestGrowingIncome or
\* LargestDropIncome is an income category.
ChangesOfRightKind ==
    Built => /\ OfKind(Changes.FastestGrowingExpense, "expense")
             /\ OfKind(Changes.LargestDropExpense, "expense")
             /\ OfKind(Changes.FastestGrowingIncome, "income")
             /\ OfKind(Changes.LargestDropIncome, "income")

-----------------------------------------------------------------------------
(* The baseline of the trend deviations                                    *)

\* the trends computed from the transactions dated inside the window alone
TrendsOfWindow ==
    fillTrendAnalytics(
        [ZeroReport EXCEPT !.StartDate = request.startDate, !.EndDate = request.endDate],
        Dated(request.currentTransactions, request.startDate, request.endDate),
        request.prevTransactions)

\* C29: the per-day averages behind the trend deviations are computed only
\* from transactions dated inside [StartDate, EndDate]: a transaction dated
\* outside the window in the current-transaction list changes no TrendPoint.
TrendBaselineFromWindow ==
    Filled => /\ report.Trends.IncomeTrend = TrendsOfWindow.IncomeTrend
              /\ report.Trends.ExpenseTrend = TrendsOfWindow.ExpenseTrend

-----------------------------------------------------------------------------
(* The iteration order over the category map                               *)

\* the category data of the report for every order in which the two loops
\* over categoryStats can walk the map
CategoryDataOfAllOrders ==
    { fillCategoryAnalytics(
          fillTransactionStats(
              [ZeroReport EXCEPT !.StartDate = request.startDate,
                                 !.EndDate = request.endDate],
              request.currentTransactions),
          request.currentTransactions, request.prevTransactions,
          request.categories, listOrder, changesOrder) :
        listOrder \in IterationOrders(CategoryIDs(request.categories)),
        changesOrder \in IterationOrders(CategoryIDs(request.categories)) }

\* C30: the four CategoryChanges records and the order of the category lists
\* of a report are a function of the transactions and categories only: every
\* iteration order over the category map yields the same category data.
IterationOrderFree ==
    Built => CategoryDataOfAllOrders = { report.CategoryData }

=============================================================================
